---------------------------- MODULE Spec2Model ----------------------------
(***************************************************************************)
(* A model of src/ants_game.py: the height field (Terrain), the combat     *)
(* model (Ant, Ability, StatusEffect), the Projectile, the AIController    *)
(* and the Game, and the calls made on them.                               *)
(*                                                                         *)
(* Units.  The program computes with Python floats; the model computes     *)
(* with exact integers in the following units:                             *)
(*   time      1 = 0.1 s          (dt, cooldowns, effect durations)        *)
(*   health    1 = 0.5 points     (5 points/s * 0.1 s = 0.5 points)        *)
(*   x         1 = 1 pixel                                                 *)
(*   y, vy     1 = 0.5 pixel      (GRAVITY = 0.5 pixel per tick)           *)
(*   angles    1 = 0.01 rad                                                *)
(*   projectile x, y, velocity   1 = 1/2000 pixel                          *)
(*   charging_power   1 = 0.5                                              *)
(* Float rounding is not modelled: arithmetic is exact.                    *)
(***************************************************************************)
EXTENDS Integers, Sequences, FiniteSets, TLC

VARIABLES
    height_map,   \* Terrain.height_map: one height per terrain segment
    ants,         \* the two Ant objects, by name
    call,         \* the call made last: its name and its arguments
    ret,          \* what the last call returned (FALSE for a call returning None)
    elapsed,      \* history: per ant, the time its abilities were ticked since its last successful bite
    steps,        \* history: the number of state-changing calls made so far
    height,       \* what the last call returned when it was get_height_at (0 otherwise)
    ai,           \* the AIController: state, state_timer
    projectile,   \* Game.projectile
    charging_power, \* Game.charging_power, in units of 0.5
    state,        \* Game.state
    impact        \* history: the impact tests that fired in the last Game.update

vars == <<height_map, ants, call, ret, elapsed, steps,
          height, ai, projectile, charging_power, state, impact>>

\* the variables of the Game that the calls on a Terrain or an Ant leave alone
game_vars == <<ai, projectile, charging_power, state, impact>>

----------------------------------------------------------------------------
(* GameConfig *)

SCREEN_WIDTH == 800
SCREEN_HEIGHT == 600
TERRAIN_RESOLUTION == 2
MIN_GROUND_HEIGHT == 100
MAX_GROUND_HEIGHT == 200
\* GRAVITY = 0.5 pixel per tick, in half pixels
GRAVITY == 1

Max(a, b) == IF a >= b THEN a ELSE b
Min(a, b) == IF a <= b THEN a ELSE b
Abs(a) == IF a >= 0 THEN a ELSE -a

----------------------------------------------------------------------------
(* Bounds of the model *)

\* the calls that change the height map, per behaviour of SpecTerrain
MaxCraters == 2

\* random.uniform(0, 2*pi), in 0.01 rad: the phases the model draws
Phases == {0, 150, 450}

\* the impact points and radii apply_destruction is called with
ImpactXs == {-3, 1, 400, 799, 830}
Radii == {20, 7}

\* the points check_collision is asked about
ProbeXs == {-1, 0, 400, 800}
ProbeYs == {-1, 450, 500, 599, 600}

\* the x get_height_at is asked about
HeightXs == {-1, 0, 401, 799, 800}

----------------------------------------------------------------------------
(* Terrain *)

\* math.pi, in 0.01 rad
PI_C == 314

\* math.sin on [0, pi], times 1000 (Bhaskara's rational approximation,
\* within 0.002 of the sine)
SinHalf(t) == LET p == t * (PI_C - t)
              IN  (16000 * p) \div (5 * PI_C * PI_C - 4 * p)

\* math.sin(a), a in 0.01 rad, times 1000
Sin(a) == LET t == a % (2 * PI_C)
          IN  IF t <= PI_C THEN SinHalf(t) ELSE -SinHalf(t - PI_C)

\* int() of a float given in thousandths: truncation toward zero
IntOfMilli(m) == IF m >= 0 THEN m \div 1000 ELSE -((-m) \div 1000)

\* The height generate_terrain computes for world x, in thousandths, before
\* the clamp: three sine waves on MIN_GROUND_HEIGHT
RawHeight(x, phase) ==
    MIN_GROUND_HEIGHT * 1000
        + Sin(2 * x + phase) * 30
        + Sin(5 * x + 2 * phase) * 15
        + Sin(x + phase \div 2) * 45

\* min(max(height, MIN_GROUND_HEIGHT), MAX_GROUND_HEIGHT), in thousandths
ClampHeight(h) == Min(Max(h, MIN_GROUND_HEIGHT * 1000), MAX_GROUND_HEIGHT * 1000)

\* range(0, SCREEN_WIDTH, TERRAIN_RESOLUTION) has this many elements
NumSegments == (SCREEN_WIDTH + TERRAIN_RESOLUTION - 1) \div TERRAIN_RESOLUTION

\* Terrain.generate_terrain, for the phase drawn
generate_terrain(phase) ==
    [k \in 1..NumSegments |->
        IntOfMilli(ClampHeight(RawHeight((k - 1) * TERRAIN_RESOLUTION, phase)))]

\* impact_start with the radius taken off x in pixels before the division
impact_start_Pixels(x, radius) ==
    Max(0, (x - radius \div TERRAIN_RESOLUTION) \div TERRAIN_RESOLUTION)

\* The first and one-past-last index (0-based) apply_destruction visits
impact_start(x, radius) ==
    Max(0, x \div TERRAIN_RESOLUTION - radius \div TERRAIN_RESOLUTION)
impact_end(hm, x, radius) ==
    Min(Len(hm), (x + radius) \div TERRAIN_RESOLUTION + 1)

\* destroyed_height without the floor at MIN_GROUND_HEIGHT
destroyed_height_NoFloor(h, i, x, radius) ==
    LET dist == Abs(x - i * TERRAIN_RESOLUTION)
    IN  IF dist < radius THEN h - (radius - dist) \div 2 ELSE h

\* destroyed_height measuring the distance from the next segment
destroyed_height_NextSegment(h, i, x, radius) ==
    LET dist == Abs(x - (i + 1) * TERRAIN_RESOLUTION)
    IN  IF dist < radius
        THEN Max(MIN_GROUND_HEIGHT, h - (radius - dist) \div 2)
        ELSE h

\* The new height of segment i (0-based) when apply_destruction visits it
destroyed_height(h, i, x, radius) ==
    LET dist == Abs(x - i * TERRAIN_RESOLUTION)
    IN  IF dist < radius
        THEN Max(MIN_GROUND_HEIGHT, h - (radius - dist) \div 2)
        ELSE h

\* Terrain.apply_destruction: the height map it leaves (y only places the
\* circle drawn on destruction_map, which the model leaves out)
apply_destruction(hm, x, y, radius) ==
    [k \in 1..Len(hm) |->
        IF impact_start(x, radius) <= k - 1 /\ k - 1 < impact_end(hm, x, radius)
        THEN destroyed_height(hm[k], k - 1, x, radius)
        ELSE hm[k]]

\* get_height_at with x > SCREEN_WIDTH for x >= SCREEN_WIDTH
get_height_at_PastEdge(hm, x) ==
    IF x < 0 \/ x > SCREEN_WIDTH
    THEN MIN_GROUND_HEIGHT
    ELSE hm[Min(Len(hm) - 1, x \div TERRAIN_RESOLUTION) + 1]

\* Terrain.get_height_at
get_height_at(hm, x) ==
    IF x < 0 \/ x >= SCREEN_WIDTH
    THEN MIN_GROUND_HEIGHT
    ELSE hm[Min(Len(hm) - 1, x \div TERRAIN_RESOLUTION) + 1]

\* check_collision with y > terrain_height for y >= terrain_height
check_collision_Strict(hm, x, y) ==
    IF x < 0 \/ x >= SCREEN_WIDTH \/ y < 0 \/ y >= SCREEN_HEIGHT
    THEN FALSE
    ELSE y > SCREEN_HEIGHT - get_height_at(hm, x)

\* Terrain.check_collision
check_collision(hm, x, y) ==
    IF x < 0 \/ x >= SCREEN_WIDTH \/ y < 0 \/ y >= SCREEN_HEIGHT
    THEN FALSE
    ELSE y >= SCREEN_HEIGHT - get_height_at(hm, x)

----------------------------------------------------------------------------
(* Ant, Ability, StatusEffect *)

AntNames == {"player", "enemy"}
Other(a) == IF a = "player" THEN "enemy" ELSE "player"

\* Ant.__init__: health and max_health, 100 points
MAX_HEALTH == 200

\* BiteAbility.__init__: cooldown 2.0 s, damage 20 points, range 30 pixels
BITE_COOLDOWN == 20
BITE_DAMAGE == 40
BITE_RANGE == 30

\* AcidSprayAbility.__init__: cooldown 5.0 s, damage 15 points, range 50
\* pixels; activate applies "acid" for 3.0 s
ACID_COOLDOWN == 50
ACID_DAMAGE == 30
ACID_RANGE == 50
ACID_DURATION == 30

\* AcidEffect.damage_per_second, 5 points per second: health units per time unit
DAMAGE_PER_SECOND == 1

\* Projectile.__init__: damage 30 points
PROJECTILE_DAMAGE == 60

\* Ant.abilities: the names it holds
AbilityNames == {"bite", "acid_spray"}

\* Ant.__init__ (velocity[0] is 0 and no code changes it: x moves only when
\* a caller assigns it)
NewAnt(x, y) ==
    [x |-> x, y |-> y, vy |-> 0,
     health |-> MAX_HEALTH, is_alive |-> TRUE,
     current_cooldown |-> [n \in AbilityNames |-> 0],
     active_effects |-> <<>>]

\* StatusEffect.__init__ / AcidEffect.__init__
NewAcidEffect(duration) ==
    [kind |-> "acid", duration |-> duration, remaining_time |-> duration]

\* take_damage without max(0, ...)
take_damage_NoFloor(a, amount) ==
    IF ~a.is_alive
    THEN a
    ELSE LET h == a.health - amount
         IN  [a EXCEPT !.health = h,
                       !.is_alive = IF h <= 0 THEN FALSE ELSE @]

\* Ant.take_damage
take_damage(a, amount) ==
    IF ~a.is_alive
    THEN a
    ELSE LET h == Max(0, a.health - amount)
         IN  [a EXCEPT !.health = h,
                       !.is_alive = IF h <= 0 THEN FALSE ELSE @]

\* Ant.apply_effect
apply_effect(a, effect_type, duration) ==
    IF effect_type = "acid"
    THEN [a EXCEPT !.active_effects = Append(@, NewAcidEffect(duration))]
    ELSE a

\* math.hypot(user.x - target.x, user.y - target.y) <= range, with x in
\* pixels and y in half pixels
WithinRange(user, target, range) ==
    LET dx == user.x - target.x
        dy == user.y - target.y
    IN  4 * dx * dx + dy * dy <= 4 * range * range

\* BiteAbility.activate starting the cooldown before the range check
BiteActivate_CooldownOnMiss(user, target) ==
    IF user.current_cooldown["bite"] > 0
    THEN [ok |-> FALSE, user |-> user, target |-> target]
    ELSE IF WithinRange(user, target, BITE_RANGE)
    THEN [ok |-> TRUE,
          user |-> [user EXCEPT !.current_cooldown["bite"] = BITE_COOLDOWN],
          target |-> take_damage(target, BITE_DAMAGE)]
    ELSE [ok |-> FALSE,
          user |-> [user EXCEPT !.current_cooldown["bite"] = BITE_COOLDOWN],
          target |-> target]

\* BiteAbility.activate never starting the cooldown
BiteActivate_NoCooldown(user, target) ==
    IF user.current_cooldown["bite"] > 0
    THEN [ok |-> FALSE, user |-> user, target |-> target]
    ELSE IF WithinRange(user, target, BITE_RANGE)
    THEN [ok |-> TRUE, user |-> user,
          target |-> take_damage(target, BITE_DAMAGE)]
    ELSE [ok |-> FALSE, user |-> user, target |-> target]

\* BiteAbility.activate: what it returns, and the user and target it leaves
BiteActivate(user, target) ==
    IF user.current_cooldown["bite"] > 0
    THEN [ok |-> FALSE, user |-> user, target |-> target]
    ELSE IF WithinRange(user, target, BITE_RANGE)
    THEN [ok |-> TRUE,
          user |-> [user EXCEPT !.current_cooldown["bite"] = BITE_COOLDOWN],
          target |-> take_damage(target, BITE_DAMAGE)]
    ELSE [ok |-> FALSE, user |-> user, target |-> target]

\* AcidSprayAbility.activate
AcidSprayActivate(user, target) ==
    IF user.current_cooldown["acid_spray"] > 0
    THEN [ok |-> FALSE, user |-> user, target |-> target]
    ELSE IF WithinRange(user, target, ACID_RANGE)
    THEN [ok |-> TRUE,
          user |-> [user EXCEPT !.current_cooldown["acid_spray"] = ACID_COOLDOWN],
          target |-> apply_effect(take_damage(target, ACID_DAMAGE),
                                  "acid", ACID_DURATION)]
    ELSE [ok |-> FALSE, user |-> user, target |-> target]

\* Ant.use_ability
use_ability(user, ability_name, target) ==
    IF ability_name \in AbilityNames
    THEN IF ability_name = "bite"
         THEN BiteActivate(user, target)
         ELSE AcidSprayActivate(user, target)
    ELSE [ok |-> FALSE, user |-> user, target |-> target]

\* Ability.update with >= 0 for > 0
AbilityUpdate_AtZero(current_cooldown, dt) ==
    IF current_cooldown >= 0 THEN current_cooldown - dt ELSE current_cooldown

\* Ability.update
AbilityUpdate(current_cooldown, dt) ==
    IF current_cooldown > 0 THEN current_cooldown - dt ELSE current_cooldown

\* StatusEffect.update: the effect after self.remaining_time -= dt
StatusEffectUpdate(e, dt) == [e EXCEPT !.remaining_time = @ - dt]

\* StatusEffect.update returning remaining_time >= 0
StillActive_AtZero(e) == e.remaining_time >= 0

\* StatusEffect.update: what it returns, remaining_time > 0
StillActive(e) == e.remaining_time > 0

\* The list comprehension of Ant.update: AcidEffect.update on every effect
\* in order (take_damage on the holder, then StatusEffect.update), keeping
\* the effects that are still active
RECURSIVE UpdateEffects(_, _, _)
UpdateEffects(a, effects, dt) ==
    IF effects = <<>>
    THEN [ant |-> a, kept |-> <<>>]
    ELSE LET hit  == take_damage(a, DAMAGE_PER_SECOND * dt)
             e    == StatusEffectUpdate(Head(effects), dt)
             rest == UpdateEffects(hit, Tail(effects), dt)
         IN  [ant  |-> rest.ant,
              kept |-> IF StillActive(e) THEN <<e>> \o rest.kept ELSE rest.kept]

\* Ant.update, the position: velocity, ground collision, gravity (x takes
\* whole values only, so int(self.x) is x)
AntPhysics(a, hm) ==
    LET y1     == a.y + a.vy
        ground == 2 * (SCREEN_HEIGHT - get_height_at(hm, a.x))
    IN  IF y1 > ground
        THEN [a EXCEPT !.y = ground, !.vy = 0]
        ELSE [a EXCEPT !.y = y1, !.vy = @ + GRAVITY]

\* Ant.update (the walking animation is left out)
AntUpdate(a, dt, hm) ==
    IF ~a.is_alive
    THEN a
    ELSE LET moved  == AntPhysics(a, hm)
             cooled == [moved EXCEPT !.current_cooldown =
                           [n \in AbilityNames |-> AbilityUpdate(@[n], dt)]]
             ticked == UpdateEffects(cooled, cooled.active_effects, dt)
         IN  [ticked.ant EXCEPT !.active_effects = ticked.kept]

----------------------------------------------------------------------------
(* Projectile *)

\* A Projectile's x, y and velocity are floats: 1 = 1/2000 pixel
PX == 2000

\* cos(45 degrees) and sin(45 degrees) in thousandths: 0.707
COS45 == 707

\* Projectile.trail_length
TRAIL_LENGTH == 10

\* the radius of the crater a projectile leaves, and the distance below
\* which it hits the enemy, in pixels
CRATER_RADIUS == 20
HIT_DISTANCE == 15

\* the most charging_power holds: 20, in units of 0.5
MAX_POWER == 40

\* Game.projectile before the first launch: None
NoProjectile ==
    [present |-> FALSE, x |-> 0, y |-> 0, velocity |-> <<0, 0>>,
     active |-> FALSE, trail |-> <<>>]

\* Projectile(player.x, player.y, velocity) as Game.run launches it, with
\* velocity = [power * cos(45), -power * sin(45)]; power in units of 0.5,
\* the Ant's y in half pixels
Launch(player, power) ==
    [present  |-> TRUE,
     x        |-> player.x * PX,
     y        |-> player.y * (PX \div 2),
     velocity |-> <<power * COS45, -(power * COS45)>>,
     active   |-> TRUE,
     trail    |-> <<>>]

\* Projectile.update: the trail, gravity (GRAVITY is in half pixels), the
\* position
ProjectileUpdate(p) ==
    LET trail == Append(p.trail, <<p.x, p.y>>)
        vy    == p.velocity[2] + GRAVITY * (PX \div 2)
    IN  [p EXCEPT !.trail = IF Len(trail) > TRAIL_LENGTH THEN Tail(trail) ELSE trail,
                  !.velocity = <<p.velocity[1], vy>>,
                  !.x = @ + p.velocity[1],
                  !.y = @ + vy]

\* int() of a projectile coordinate: the whole pixels, rounded toward 0
IntOf(v) == IF v >= 0 THEN v \div PX ELSE -((-v) \div PX)

\* math.hypot(p.x - ant.x, p.y - ant.y) < HIT_DISTANCE (a coordinate
\* HIT_DISTANCE apart or more settles it without squaring)
WithinHit(p, ant) ==
    LET dx == Abs(p.x - ant.x * PX)
        dy == Abs(p.y - ant.y * (PX \div 2))
        r  == HIT_DISTANCE * PX
    IN  /\ dx < r
        /\ dy < r
        /\ dx * dx + dy * dy < r * r

----------------------------------------------------------------------------
(* AIController *)

\* AIController.__init__
NewAIController == [state |-> "idle", state_timer |-> 0]

\* What random.uniform and random.random returned in one update: u picks
\* the point of the interval (0: the low end, 2: the high end), flip is
\* random() < 0.2, attack is random() < difficulty, melee is random() < 0.7
UnitDraws == {0, 1, 2}
Draws == [u : UnitDraws, flip : BOOLEAN, attack : BOOLEAN, melee : BOOLEAN]

\* random.uniform(a, b)
uniform(a, b, u) == a + ((b - a) * u) \div 2

\* What one AIController.update leaves: the controller, its ant, the player's
\* ant, the ability it invoked ("" for none) and what the invocation returned
AIResult(c, ant, player, used, ok) ==
    [ai |-> c, ant |-> ant, player |-> player, used |-> used, ok |-> ok]

\* AIIdle with distance_to_player <= 100 for < 100
AIIdle_AtHundred(timer, distance, rnd) ==
    IF timer <= 0
    THEN IF distance <= 100
         THEN [state |-> "attack", state_timer |-> 20]
         ELSE [state |-> "move", state_timer |-> uniform(10, 30, rnd.u)]
    ELSE [state |-> "idle", state_timer |-> timer]

\* AIIdle that does not wait for the timer
AIIdle_NoTimer(timer, distance, rnd) ==
    IF distance < 100
    THEN [state |-> "attack", state_timer |-> 20]
    ELSE [state |-> "move", state_timer |-> uniform(10, 30, rnd.u)]

\* AIController.update, the "idle" branch: the controller it leaves
AIIdle(timer, distance, rnd) ==
    IF timer <= 0
    THEN IF distance < 100
         THEN [state |-> "attack", state_timer |-> 20]
         ELSE [state |-> "move", state_timer |-> uniform(10, 30, rnd.u)]
    ELSE [state |-> "idle", state_timer |-> timer]

\* the direction the "move" branch walks in
AIDirection(ant, player, rnd) ==
    LET direction == IF player.x > ant.x THEN 1 ELSE -1
    IN  IF rnd.flip THEN -direction ELSE direction

\* AIMove that walks in the tick it goes back to "idle" too
AIMove_AlwaysWalks(timer, distance, ant, player, rnd) ==
    LET walked == [ant EXCEPT !.x = @ + AIDirection(ant, player, rnd) * 2]
    IN  IF timer <= 0 \/ distance < 50
        THEN AIResult([state |-> "idle", state_timer |-> uniform(5, 15, rnd.u)],
                      walked, player, "", FALSE)
        ELSE AIResult([state |-> "move", state_timer |-> timer],
                      walked, player, "", FALSE)

\* AIMove that starts "move" again where it should go back to "idle"
AIMove_Restarts(timer, distance, ant, player, rnd) ==
    IF timer <= 0 \/ distance < 50
    THEN AIResult([state |-> "move", state_timer |-> uniform(5, 15, rnd.u)],
                  ant, player, "", FALSE)
    ELSE AIResult([state |-> "move", state_timer |-> timer],
                  [ant EXCEPT !.x = @ + AIDirection(ant, player, rnd) * 2],
                  player, "", FALSE)

\* AIController.update, the "move" branch
AIMove(timer, distance, ant, player, rnd) ==
    IF timer <= 0 \/ distance < 50
    THEN AIResult([state |-> "idle", state_timer |-> uniform(5, 15, rnd.u)],
                  ant, player, "", FALSE)
    ELSE AIResult([state |-> "move", state_timer |-> timer],
                  [ant EXCEPT !.x = @ + AIDirection(ant, player, rnd) * 2],
                  player, "", FALSE)

\* AIChoice with distance_to_player <= 40 for < 40
AIChoice_AtForty(distance, rnd) ==
    IF distance < 120 /\ rnd.attack
    THEN IF distance <= 40 /\ rnd.melee THEN "bite" ELSE "acid_spray"
    ELSE ""

\* the ability the "attack" branch invokes ("" for none)
AIChoice(distance, rnd) ==
    IF distance < 120 /\ rnd.attack
    THEN IF distance < 40 /\ rnd.melee THEN "bite" ELSE "acid_spray"
    ELSE ""

\* AIController.update, the "attack" branch
AIAttack(distance, ant, player, rnd) ==
    LET used == AIChoice(distance, rnd)
        idle == [state |-> "idle", state_timer |-> uniform(10, 20, rnd.u)]
    IN  IF used = ""
        THEN AIResult(idle, ant, player, "", FALSE)
        ELSE LET r == use_ability(ant, used, player)
             IN  AIResult(idle, r.user, r.target, used, r.ok)

\* AIControllerUpdate that lowers state_timer before it looks at is_alive
AIControllerUpdate_TimerFirst(c, ant, player, dt, rnd) ==
    LET timer    == c.state_timer - dt
        distance == Abs(ant.x - player.x)
    IN  IF ~ant.is_alive
        THEN AIResult([c EXCEPT !.state_timer = timer], ant, player, "", FALSE)
        ELSE CASE c.state = "idle" ->
                    AIResult(AIIdle(timer, distance, rnd), ant, player, "", FALSE)
               [] c.state = "move" ->
                    AIMove(timer, distance, ant, player, rnd)
               [] c.state = "attack" ->
                    AIAttack(distance, ant, player, rnd)

\* AIController.update (the terrain argument is not used)
AIControllerUpdate(c, ant, player, dt, rnd) ==
    IF ~ant.is_alive
    THEN AIResult(c, ant, player, "", FALSE)
    ELSE LET timer    == c.state_timer - dt
             distance == Abs(ant.x - player.x)
         IN  CASE c.state = "idle" ->
                    AIResult(AIIdle(timer, distance, rnd), ant, player, "", FALSE)
               [] c.state = "move" ->
                    AIMove(timer, distance, ant, player, rnd)
               [] c.state = "attack" ->
                    AIAttack(distance, ant, player, rnd)

----------------------------------------------------------------------------
(* Game *)

\* The keys pygame.key.get_pressed() reports as held
NoKeys == [left |-> FALSE, right |-> FALSE, z |-> FALSE, x |-> FALSE, space |-> FALSE]

\* The Game as a value: what handle_input and update read and write;
\* impact is the set of impact tests that fired in the last update
TheGame(hm, player, enemy, c, p, power, st, imp) ==
    [height_map |-> hm, player |-> player, enemy |-> enemy, ai |-> c,
     projectile |-> p, charging_power |-> power, state |-> st, impact |-> imp]

\* Game.run, the KEYUP event of K_SPACE: a projectile is launched when
\* charging_power > 0
Release(g) ==
    IF g.charging_power > 0
    THEN [g EXCEPT !.projectile = Launch(g.player, g.charging_power),
                   !.charging_power = 0]
    ELSE g

\* Game.handle_input
handle_input(g, keys) ==
    LET walked == IF keys.left THEN [g.player EXCEPT !.x = @ - 5]
                  ELSE IF keys.right THEN [g.player EXCEPT !.x = @ + 5]
                  ELSE g.player
        bite   == IF keys.z
                  THEN use_ability(walked, "bite", g.enemy)
                  ELSE [ok |-> FALSE, user |-> walked, target |-> g.enemy]
        spray  == IF keys.x
                  THEN use_ability(bite.user, "acid_spray", bite.target)
                  ELSE bite
    IN  [g EXCEPT !.player = [spray.user EXCEPT
                                 !.x = Max(10, Min(SCREEN_WIDTH - 10, @))],
                  !.enemy = spray.target,
                  !.charging_power = IF keys.space THEN Min(@ + 1, MAX_POWER) ELSE @]

\* Game.handle_game_over: the winner it shows
winner_text(enemy) == IF enemy.health <= 0 THEN "Player Wins!" ELSE "AI Wins!"

\* MatchOver that looks at the enemy only
MatchOver_EnemyOnly(player, enemy) == ~enemy.is_alive

\* MatchOver that asks for both Ants to be dead
MatchOver_Both(player, enemy) == ~player.is_alive /\ ~enemy.is_alive

\* Game.update, the win/lose test
MatchOver(player, enemy) == ~player.is_alive \/ ~enemy.is_alive

\* Game.update, the projectile: it moves, the ground test, the enemy test
ProjectileStep(g) ==
    IF ~(g.projectile.present /\ g.projectile.active)
    THEN [g EXCEPT !.impact = {}]
    ELSE LET p      == ProjectileUpdate(g.projectile)
             ground == check_collision(g.height_map, IntOf(p.x), IntOf(p.y))
             hit    == WithinHit(p, g.enemy)
         IN  [g EXCEPT
                 !.height_map = IF ground
                                THEN apply_destruction(@, IntOf(p.x), IntOf(p.y),
                                                       CRATER_RADIUS)
                                ELSE @,
                 !.enemy = IF hit THEN take_damage(@, PROJECTILE_DAMAGE) ELSE @,
                 !.projectile = [p EXCEPT !.active = ~(ground \/ hit)],
                 !.impact = (IF ground THEN {"ground"} ELSE {})
                               \cup (IF hit THEN {"enemy"} ELSE {})]

\* Game.update
update(g, dt, rnd) ==
    LET player == AntUpdate(g.player, dt, g.height_map)
        enemy  == AntUpdate(g.enemy, dt, g.height_map)
        r      == AIControllerUpdate(g.ai, enemy, player, dt, rnd)
        flown  == ProjectileStep([g EXCEPT !.player = r.player, !.enemy = r.ant,
                                           !.ai = r.ai])
    IN  [flown EXCEPT !.state = IF MatchOver(flown.player, flown.enemy)
                                THEN "game_over" ELSE @]

----------------------------------------------------------------------------
(* The calls *)

\* No Game has been constructed: the Terrain and the Ants are on their own
NoGame ==
    /\ ai = NewAIController
    /\ projectile = NoProjectile
    /\ charging_power = 0
    /\ state = "none"
    /\ impact = {}

\* What a call found: whether the Ant called and the other Ant were alive,
\* the effects the Ant called held, the time since its last successful
\* bite (-1: none yet), its x and the AIController
NoBefore ==
    [alive |-> FALSE, other_alive |-> FALSE, n_effects |-> 0, since_bite |-> -1,
     x |-> 0, ai |-> NewAIController]

Before(a) ==
    [alive       |-> ants[a].is_alive,
     other_alive |-> ants[Other(a)].is_alive,
     n_effects   |-> Len(ants[a].active_effects),
     since_bite  |-> elapsed[a],
     x           |-> ants[a].x,
     ai          |-> ai]

NoCall ==
    [op |-> "none", who |-> "", name |-> "", x |-> 0, y |-> 0, n |-> 0,
     before |-> NoBefore]

\* A call on the Terrain
TerrainCall(op, x, y, n) ==
    [op |-> op, who |-> "", name |-> "", x |-> x, y |-> y, n |-> n,
     before |-> NoBefore]

\* A call on Ant a
AntCall(op, a, name, n) ==
    [op |-> op, who |-> a, name |-> name, x |-> 0, y |-> 0, n |-> n,
     before |-> Before(a)]

----------------------------------------------------------------------------
(* SpecTerrain: a Terrain and the calls made on it *)

InitTerrain ==
    /\ \E phase \in Phases : height_map = generate_terrain(phase)
    /\ ants = <<>>
    /\ call = NoCall
    /\ ret = FALSE
    /\ elapsed = <<>>
    /\ steps = 0
    /\ height = 0
    /\ NoGame

ApplyDestruction(x, y, radius) ==
    /\ steps < MaxCraters
    /\ height_map' = apply_destruction(height_map, x, y, radius)
    /\ call' = TerrainCall("apply_destruction", x, y, radius)
    /\ ret' = FALSE
    /\ steps' = steps + 1
    /\ height' = 0
    /\ UNCHANGED <<ants, elapsed, game_vars>>

CheckCollision(x, y) ==
    /\ call' = TerrainCall("check_collision", x, y, 0)
    /\ ret' = check_collision(height_map, x, y)
    /\ height' = 0
    /\ UNCHANGED <<height_map, ants, elapsed, steps, game_vars>>

GetHeightAt(x) ==
    /\ call' = TerrainCall("get_height_at", x, 0, 0)
    /\ height' = get_height_at(height_map, x)
    /\ ret' = FALSE
    /\ UNCHANGED <<height_map, ants, elapsed, steps, game_vars>>

NextTerrain ==
    \/ \E x \in ImpactXs, radius \in Radii : ApplyDestruction(x, 450, radius)
    \/ \E x \in ProbeXs, y \in ProbeYs : CheckCollision(x, y)
    \/ \E x \in HeightXs : GetHeightAt(x)

SpecTerrain == InitTerrain /\ [][NextTerrain]_vars

----------------------------------------------------------------------------
(* SpecCombat: two Ants on a Terrain and the calls made on them *)

\* the calls that change an Ant, per behaviour of SpecCombat
MaxSteps == 5

\* the longest active_effects list the model lets apply_effect build
MaxEffects == 2

\* the frame times the model draws: 0.5 s and 1.6 s
DTs == {5, 16}

\* the amounts take_damage is called with besides the abilities' own
Damages == {PROJECTILE_DAMAGE, 140}

\* where the second Ant is constructed: Game.__init__ puts the first at
\* (100, SCREEN_HEIGHT - 150)
EnemyXs == {110, 130, 300}

\* the names use_ability is called with
CalledAbilities == AbilityNames \cup {"sting"}

\* the effect types and the duration (2.1 s) apply_effect is called with
CalledEffects == {"acid", "slow"}
CalledDuration == 21

InitCombat ==
    /\ height_map = generate_terrain(0)
    /\ \E ex \in EnemyXs :
          ants = [a \in AntNames |->
                     IF a = "player"
                     THEN NewAnt(100, 2 * (SCREEN_HEIGHT - 150))
                     ELSE NewAnt(ex, 2 * (SCREEN_HEIGHT - 150))]
    /\ call = NoCall
    /\ ret = FALSE
    /\ elapsed = [a \in AntNames |-> -1]
    /\ steps = 0
    /\ height = 0
    /\ NoGame

Update(a, dt) ==
    /\ steps < MaxSteps
    /\ ants' = [ants EXCEPT ![a] = AntUpdate(@, dt, height_map)]
    /\ call' = AntCall("update", a, "", dt)
    /\ ret' = FALSE
    /\ elapsed' = [elapsed EXCEPT ![a] =
                      IF ants[a].is_alive /\ @ >= 0 THEN @ + dt ELSE @]
    /\ steps' = steps + 1
    /\ UNCHANGED <<height_map, height, game_vars>>

UseAbility(u, name) ==
    LET r == use_ability(ants[u], name, ants[Other(u)])
    IN  /\ steps < MaxSteps
        /\ Len(r.target.active_effects) <= MaxEffects
        /\ ants' = [ants EXCEPT ![u] = r.user, ![Other(u)] = r.target]
        /\ call' = AntCall("use_ability", u, name, 0)
        /\ ret' = r.ok
        /\ elapsed' = [elapsed EXCEPT ![u] =
                          IF name = "bite" /\ r.ok THEN 0 ELSE @]
        /\ steps' = steps + 1
        /\ UNCHANGED <<height_map, height, game_vars>>

TakeDamage(a, amount) ==
    /\ steps < MaxSteps
    /\ ants' = [ants EXCEPT ![a] = take_damage(@, amount)]
    /\ call' = AntCall("take_damage", a, "", amount)
    /\ ret' = FALSE
    /\ steps' = steps + 1
    /\ UNCHANGED <<height_map, elapsed, height, game_vars>>

ApplyEffect(a, effect_type, duration) ==
    /\ steps < MaxSteps
    /\ Len(ants[a].active_effects) < MaxEffects
    /\ ants' = [ants EXCEPT ![a] = apply_effect(@, effect_type, duration)]
    /\ call' = AntCall("apply_effect", a, effect_type, duration)
    /\ ret' = FALSE
    /\ steps' = steps + 1
    /\ UNCHANGED <<height_map, elapsed, height, game_vars>>

NextCombat ==
    \/ \E a \in AntNames, dt \in DTs : Update(a, dt)
    \/ \E u \in AntNames, name \in CalledAbilities : UseAbility(u, name)
    \/ \E a \in AntNames, amount \in Damages : TakeDamage(a, amount)
    \/ \E a \in AntNames, t \in CalledEffects : ApplyEffect(a, t, CalledDuration)

SpecCombat == InitCombat /\ [][NextCombat]_vars

----------------------------------------------------------------------------
(* SpecAI: an AIController, its Ant and the player's Ant, the update calls *)
(* made on the controller, and the calls that tick, poison and hit its Ant *)

\* the AIController.update calls per behaviour of SpecAI
MaxAISteps == 4

\* where the player's Ant stands when update is called: at distance 550,
\* 120, 100, 50, 40 and 25 from where the controller's Ant is constructed
PlayerXs == {100, 530, 550, 600, 610, 625}

\* the health the controller's Ant starts with: full, or what a fight has
\* left it (20 points)
AIHealths == {MAX_HEALTH, 40}

InitAI ==
    /\ height_map = generate_terrain(0)
    /\ \E health \in AIHealths :
          ants = [a \in AntNames |->
                     IF a = "player"
                     THEN NewAnt(100, 2 * (SCREEN_HEIGHT - 150))
                     ELSE [NewAnt(SCREEN_WIDTH - 150, 2 * (SCREEN_HEIGHT - 150))
                              EXCEPT !.health = health]]
    /\ ai = NewAIController
    /\ projectile = NoProjectile
    /\ charging_power = 0
    /\ state = "none"
    /\ impact = {}
    /\ call = NoCall
    /\ ret = FALSE
    /\ elapsed = [a \in AntNames |-> -1]
    /\ steps = 0
    /\ height = 0

\* The player's Ant is put at x: the player_ant the next update is given
PlacePlayer(x) ==
    /\ ants["player"].x # x
    /\ ants' = [ants EXCEPT !["player"].x = x]
    /\ call' = [AntCall("place", "player", "", 0) EXCEPT !.x = x]
    /\ ret' = FALSE
    /\ UNCHANGED <<height_map, elapsed, steps, height, game_vars>>

\* ai_controller.update(dt, player, terrain); the call records the ability
\* invoked and the distance found
AIUpdate(dt, rnd) ==
    LET r == AIControllerUpdate(ai, ants["enemy"], ants["player"], dt, rnd)
    IN  /\ steps < MaxAISteps
        /\ ai' = r.ai
        /\ ants' = [a \in AntNames |-> IF a = "enemy" THEN r.ant ELSE r.player]
        /\ call' = [AntCall("ai_update", "enemy", r.used, dt)
                       EXCEPT !.x = Abs(ants["enemy"].x - ants["player"].x)]
        /\ ret' = r.ok
        /\ steps' = steps + 1
        /\ UNCHANGED <<height_map, elapsed, height, projectile,
                       charging_power, state, impact>>

NextAI ==
    \/ \E x \in PlayerXs : PlacePlayer(x)
    \/ \E dt \in DTs, rnd \in Draws : AIUpdate(dt, rnd)
    \/ steps < MaxAISteps /\ \E dt \in DTs : Update("enemy", dt)
    \/ steps < MaxAISteps /\ TakeDamage("enemy", PROJECTILE_DAMAGE)
    \/ steps < MaxAISteps /\ ApplyEffect("enemy", "acid", CalledDuration)

SpecAI == InitAI /\ [][NextAI]_vars

----------------------------------------------------------------------------
(* SpecAILive: the controller updated in every iteration of the loop, for   *)
(* as long as the loop runs                                                *)

\* how far from where it is constructed the controller's Ant is let walk:
\* the draws that would take it further are left out
WalkRange == 4

\* ai_controller.update(dt, player, terrain), any number of times
AITick(dt, rnd) ==
    LET r == AIControllerUpdate(ai, ants["enemy"], ants["player"], dt, rnd)
    IN  /\ Abs(r.ant.x - (SCREEN_WIDTH - 150)) <= WalkRange
        /\ ai' = r.ai
        /\ ants' = [a \in AntNames |-> IF a = "enemy" THEN r.ant ELSE r.player]
        /\ call' = [NoCall EXCEPT !.op = "ai_update", !.who = "enemy"]
        /\ ret' = r.ok
        /\ UNCHANGED <<height_map, elapsed, steps, height, projectile,
                       charging_power, state, impact>>

\* Game.update calls ai_controller.update once in every iteration
AITicks == \E dt \in DTs, rnd \in Draws : AITick(dt, rnd)

NextAILive ==
    \/ \E x \in PlayerXs : PlacePlayer(x)
    \/ AITicks
    \/ steps = 0 /\ TakeDamage("enemy", PROJECTILE_DAMAGE)

SpecAILive == InitAI /\ [][NextAILive]_vars /\ WF_vars(AITicks)

----------------------------------------------------------------------------
(* SpecGame: the Game and the iterations of the loop of Game.run           *)

\* the iterations of the loop per behaviour of SpecGame
MaxFrames == 4

\* A match under way, as the frames before have left it: the player's Ant
\* has walked to x (a multiple of 5 in 10..790), the two Ants stand on the
\* ground with the health the fight has left them, SPACE has been held for
\* power frames
StartPlayerXs == {100, 640, 790}
StartHealths == {MAX_HEALTH, 40}
StartPowers == {0, 39}

\* the frame times the model draws for the Game: 1.6 s
FrameDTs == {16}

\* what the random draws of the controller return in a frame of the Game:
\* uniform() its low end, no change of direction, melee when near, and
\* either outcome of the roll against difficulty
FrameDraws == [u : {0}, flip : {FALSE}, attack : BOOLEAN, melee : {TRUE}]

\* the keys held in a frame
KeyStates ==
    {NoKeys,
     [NoKeys EXCEPT !.right = TRUE],
     [NoKeys EXCEPT !.left = TRUE, !.x = TRUE],
     [NoKeys EXCEPT !.z = TRUE],
     [NoKeys EXCEPT !.space = TRUE]}

\* An Ant at x that has come to rest on the ground
Standing(hm, x, health) ==
    [NewAnt(x, 2 * (SCREEN_HEIGHT - get_height_at(hm, x))) EXCEPT !.health = health]

\* The variables hold the Game g
IsGame(g) ==
    /\ height_map = g.height_map
    /\ ants = [a \in AntNames |-> IF a = "player" THEN g.player ELSE g.enemy]
    /\ ai = g.ai
    /\ projectile = g.projectile
    /\ charging_power = g.charging_power
    /\ state = g.state
    /\ impact = g.impact

\* The step leaves the Game g
BecomesGame(g) ==
    /\ height_map' = g.height_map
    /\ ants' = [a \in AntNames |-> IF a = "player" THEN g.player ELSE g.enemy]
    /\ ai' = g.ai
    /\ projectile' = g.projectile
    /\ charging_power' = g.charging_power
    /\ state' = g.state
    /\ impact' = g.impact

\* Game.__init__
NewGame(phase) ==
    TheGame(generate_terrain(phase),
            NewAnt(100, 2 * (SCREEN_HEIGHT - 150)),
            NewAnt(SCREEN_WIDTH - 150, 2 * (SCREEN_HEIGHT - 150)),
            NewAIController, NoProjectile, 0, "menu", {})

InitGame ==
    /\ \/ IsGame(NewGame(0))
       \/ \E x \in StartPlayerXs, hp \in StartHealths, he \in StartHealths,
             power \in StartPowers :
             LET hm == generate_terrain(0)
             IN  IsGame(TheGame(hm, Standing(hm, x, hp),
                                Standing(hm, SCREEN_WIDTH - 150, he),
                                NewAIController, NoProjectile, power,
                                "playing", {}))
    /\ call = NoCall
    /\ ret = FALSE
    /\ elapsed = [a \in AntNames |-> -1]
    /\ steps = 0
    /\ height = 0

\* Game.handle_menu with K_SPACE pressed
HandleMenu ==
    /\ state = "menu"
    /\ steps < MaxFrames
    /\ state' = "playing"
    /\ call' = [AntCall("handle_menu", "enemy", "", 0) EXCEPT !.who = ""]
    /\ ret' = FALSE
    /\ steps' = steps + 1
    /\ UNCHANGED <<height_map, ants, elapsed, height, ai, projectile,
                   charging_power, impact>>

\* Game.handle_game_over with K_SPACE pressed: self.__init__()
HandleGameOver(phase) ==
    /\ state = "game_over"
    /\ steps < MaxFrames
    /\ BecomesGame(NewGame(phase))
    /\ call' = [AntCall("handle_game_over", "enemy", "", 0) EXCEPT !.who = ""]
    /\ ret' = FALSE
    /\ steps' = steps + 1
    /\ UNCHANGED <<elapsed, height>>

\* One iteration of the loop of Game.run in the PLAYING state: the KEYUP
\* event of K_SPACE when release, handle_input, update (draw is left out)
Frame(release, keys, dt, rnd) ==
    LET g == TheGame(height_map, ants["player"], ants["enemy"], ai, projectile,
                     charging_power, state, impact)
        launched == IF release THEN Release(g) ELSE g
    IN  /\ state = "playing"
        /\ steps < MaxFrames
        /\ BecomesGame(update(handle_input(launched, keys), dt, rnd))
        /\ call' = [AntCall("frame", "enemy", IF release THEN "release" ELSE "", dt)
                       EXCEPT !.who = ""]
        /\ ret' = FALSE
        /\ steps' = steps + 1
        /\ UNCHANGED <<elapsed, height>>

NextGame ==
    \/ HandleMenu
    \/ \E phase \in Phases : HandleGameOver(phase)
    \/ \E release \in BOOLEAN, keys \in KeyStates, dt \in FrameDTs, rnd \in FrameDraws :
          Frame(release, keys, dt, rnd)

SpecGame == InitGame /\ [][NextGame]_vars

----------------------------------------------------------------------------
(* Properties of the combat model, checked under SpecCombat *)

\* The fixed range, damage and cooldown of an ability
RangeOf(name) == IF name = "bite" THEN BITE_RANGE ELSE ACID_RANGE
DamageOf(name) == IF name = "bite" THEN BITE_DAMAGE ELSE ACID_DAMAGE
CooldownOf(name) == IF name = "bite" THEN BITE_COOLDOWN ELSE ACID_COOLDOWN

\* The Euclidean distance between two ants exceeds range (x in pixels, y in
\* half pixels)
Farther(u, t, range) ==
    4 * (u.x - t.x) * (u.x - t.x) + (u.y - t.y) * (u.y - t.y) > 4 * range * range

\* The step is use_ability(name) called by u
IsUseAbility(u, name) ==
    call'.op = "use_ability" /\ call'.who = u /\ call'.name = name

\* The step is update(dt) called on a
IsUpdate(a, dt) ==
    call'.op = "update" /\ call'.who = a /\ call'.n = dt

\* Ant a keeps its health, its alive flag and its effects in the step
SameBody(a) ==
    /\ ants'[a].health = ants[a].health
    /\ ants'[a].is_alive = ants[a].is_alive
    /\ ants'[a].active_effects = ants[a].active_effects

\* C1: for every sequence of take_damage calls (direct, from abilities, from
\* effect ticks) health stays in [0, max_health], is_alive is false exactly
\* when health is 0, and once is_alive is false no call changes health or
\* is_alive.
C1_DamageFloor ==
    /\ [](\A a \in AntNames :
            /\ ants[a].health \in 0..MAX_HEALTH
            /\ (~ants[a].is_alive) <=> (ants[a].health = 0))
    /\ [][\A a \in AntNames :
            ~ants[a].is_alive =>
                /\ ants'[a].health = ants[a].health
                /\ ants'[a].is_alive = ants[a].is_alive]_vars

\* C1 witness: take_damage was called on an ant that was already dead
C1_Witness ==
    /\ call.op = "take_damage"
    /\ ~call.before.alive
    /\ ants[call.who].health = 0
    /\ ~ants[call.who].is_alive

\* C2: an activation of bite or acid_spray attempted while its cooldown is
\* > 0, or while the target is farther than its range, returns false and
\* changes neither ant (cooldowns, health, effects).
C2_FailedActivation ==
    [][\A u \in AntNames, name \in AbilityNames :
         (/\ IsUseAbility(u, name)
          /\ \/ ants[u].current_cooldown[name] > 0
             \/ Farther(ants[u], ants[Other(u)], RangeOf(name)))
         => (ret' = FALSE /\ ants' = ants)]_vars

\* C2 witness: acid_spray off cooldown failed against a target 200 pixels away
C2_Witness ==
    /\ call.op = "use_ability"
    /\ call.name = "acid_spray"
    /\ ret = FALSE
    /\ ants[call.who].current_cooldown["acid_spray"] = 0
    /\ Abs(ants[call.who].x - ants[Other(call.who)].x) = 200

\* C3: an activation with no cooldown remaining and the target within range
\* returns true, lowers an alive target's health by the ability's damage
\* (not below 0) and sets the cooldown to the ability's duration; a bite
\* attempted after ticks totalling less than 2.0 s since the last successful
\* bite (0.5 s) fails and leaves the target's health unchanged, and one
\* attempted after ticks totalling 2.0 s or more (2.1 s) with the target in
\* range succeeds and deals the bite's damage again.
C3_Activation ==
    [][\A u \in AntNames, name \in AbilityNames :
         LET t == Other(u)
             hit == IF ants[t].is_alive
                    THEN Max(0, ants[t].health - DamageOf(name))
                    ELSE ants[t].health
             inRange == ~Farther(ants[u], ants[t], RangeOf(name))
         IN  /\ (IsUseAbility(u, name) /\ ants[u].current_cooldown[name] <= 0 /\ inRange)
                  => /\ ret' = TRUE
                     /\ ants'[t].health = hit
                     /\ ants'[u].current_cooldown[name] = CooldownOf(name)
             /\ (IsUseAbility(u, name) /\ name = "bite"
                    /\ elapsed[u] >= 0 /\ elapsed[u] < BITE_COOLDOWN)
                  => /\ ret' = FALSE
                     /\ ants'[t].health = ants[t].health
             /\ (IsUseAbility(u, name) /\ name = "bite"
                    /\ elapsed[u] >= BITE_COOLDOWN /\ inRange)
                  => /\ ret' = TRUE
                     /\ ants'[t].health = hit]_vars

\* C3 witness: a second bite, 2.1 s of ticks after the first, succeeded and the
\* target has lost the bite's damage twice
C3_Witness ==
    /\ call.op = "use_ability"
    /\ call.name = "bite"
    /\ ret = TRUE
    /\ call.before.since_bite = 21
    /\ ants[Other(call.who)].health = MAX_HEALTH - 2 * BITE_DAMAGE

Ticked(e) == e.duration - e.remaining_time

\* C5: an effect of duration D on an alive holder stays in the list while
\* its ticked time is < D and is removed by the tick in which the ticked time
\* reaches or exceeds D; every effect in the list at a tick, the ones removed
\* by it included, applies rate * dt damage in it (to a holder the tick has
\* not yet killed).
C5_EffectExpiry ==
    /\ [](\A a \in AntNames : \A i \in 1..Len(ants[a].active_effects) :
            LET e == ants[a].active_effects[i]
            IN  Ticked(e) >= 0 /\ Ticked(e) < e.duration)
    /\ [][\A a \in AntNames, dt \in DTs :
            (IsUpdate(a, dt) /\ ants[a].is_alive) =>
                LET old == ants[a].active_effects
                    Stays(e) == Ticked(e) + dt < e.duration
                    Aged(e) == [e EXCEPT !.remaining_time = e.remaining_time - dt]
                    kept == SelectSeq(old, Stays)
                IN  /\ ants'[a].active_effects = [i \in 1..Len(kept) |-> Aged(kept[i])]
                    /\ ants'[a].health =
                           Max(0, ants[a].health - Len(old) * DAMAGE_PER_SECOND * dt)]_vars

\* C5 witness: the acid of one acid_spray was removed by a tick that took
\* its ticked time to 3.2 s, past its 3.0 s, and the holder has lost the
\* damage of all 3.2 s
C5_Witness ==
    /\ call.op = "update"
    /\ call.before.alive
    /\ call.before.n_effects = 1
    /\ ants[call.who].active_effects = <<>>
    /\ ants[call.who].health = MAX_HEALTH - ACID_DAMAGE - 32 * DAMAGE_PER_SECOND

\* C6: use_ability called by an ant that is not alive returns false and
\* changes nothing.
C6_DeadUserNoOp ==
    [][(call'.op = "use_ability" /\ ~ants[call'.who].is_alive)
         => (ret' = FALSE /\ ants' = ants)]_vars

\* C7: take_damage, apply_effect and an ability used against an ant that is
\* not alive leave its health, its alive flag and its effects unchanged.
C7_DeadTargetNoOp ==
    [][/\ (call'.op \in {"take_damage", "apply_effect"} /\ ~ants[call'.who].is_alive)
           => SameBody(call'.who)
       /\ (call'.op = "use_ability" /\ ~ants[Other(call'.who)].is_alive)
           => SameBody(Other(call'.who))]_vars

----------------------------------------------------------------------------
(* Properties of the height field, checked under SpecTerrain *)

\* World x of the 1-based sample k
WorldX(k) == (k - 1) * TERRAIN_RESOLUTION

\* C8: every height-map sample lies in [MIN_GROUND_HEIGHT,
\* MAX_GROUND_HEIGHT], after generation for every phase and after every
\* sequence of apply_destruction calls.
C8_TerrainBounds ==
    \A k \in 1..Len(height_map) :
        MIN_GROUND_HEIGHT <= height_map[k] /\ height_map[k] <= MAX_GROUND_HEIGHT

\* C8 witness: a crater of radius 20 at x = 400 on the terrain of phase 0,
\* whose samples there are less than the reduction above the minimum, left a
\* sample at the minimum
C8_Witness ==
    /\ call.op = "apply_destruction"
    /\ call.x = 400 /\ call.n = 20
    /\ steps = 1
    /\ \E k \in 1..Len(height_map) :
          /\ generate_terrain(0)[k] > MIN_GROUND_HEIGHT
          /\ generate_terrain(0)[k] - (20 - Abs(400 - WorldX(k))) \div 2 < MIN_GROUND_HEIGHT
          /\ height_map[k] = MIN_GROUND_HEIGHT
    /\ \A k \in 1..Len(height_map) :
          Abs(400 - WorldX(k)) >= 20 => height_map[k] = generate_terrain(0)[k]

\* C9: apply_destruction(cx, _, r) leaves every sample within r of cx at or
\* below its value and every sample at distance >= r unchanged; no step
\* raises a sample.
C9_CraterMonotone ==
    /\ [][call'.op = "apply_destruction" =>
            \A k \in 1..Len(height_map) :
                IF Abs(call'.x - WorldX(k)) < call'.n
                THEN height_map'[k] <= height_map[k]
                ELSE height_map'[k] = height_map[k]]_vars
    /\ [][/\ Len(height_map') = Len(height_map)
          /\ \A k \in 1..Len(height_map) : height_map'[k] <= height_map[k]]_vars

\* C9 witness: a crater lowered the terrain: the map is none of the generated ones
C9_Witness ==
    /\ call.op = "apply_destruction"
    /\ \A phase \in Phases : height_map # generate_terrain(phase)

\* C10 as claimed: check_collision(x, y) returns true iff
\* y >= SCREEN_HEIGHT - get_height_at(x), for every x and y.
C10_GroundedIff ==
    call.op = "check_collision" =>
        (ret <=> call.y >= SCREEN_HEIGHT - get_height_at(height_map, call.x))

\* C10 as amended: check_collision(x, y) returns true iff x is in
\* [0, SCREEN_WIDTH), y is in [0, SCREEN_HEIGHT) and y is at or below the
\* ground line of the sample x falls in; it returns false for every point
\* outside the screen.
C10_GroundedInScreen ==
    call.op = "check_collision" =>
        (ret <=> /\ 0 <= call.x /\ call.x < SCREEN_WIDTH
                 /\ 0 <= call.y /\ call.y < SCREEN_HEIGHT
                 /\ call.y >= SCREEN_HEIGHT
                                - height_map[call.x \div TERRAIN_RESOLUTION + 1])

\* C10 witness: a point exactly on the ground line is reported grounded
C10_Witness ==
    /\ call.op = "check_collision"
    /\ ret = TRUE
    /\ call.x = 0
    /\ call.y = SCREEN_HEIGHT - height_map[1]

\* C11: a query outside the arena is answered with a default and a query
\* inside with a stored sample: get_height_at(x) returns MIN_GROUND_HEIGHT
\* for x < 0 or x >= SCREEN_WIDTH and, for x inside, the sample of the
\* segment x lies in; check_collision returns FALSE for every point whose x
\* is outside the arena.
C11_OutOfBounds ==
    /\ call.op = "get_height_at" =>
          IF call.x < 0 \/ call.x >= SCREEN_WIDTH
          THEN height = MIN_GROUND_HEIGHT
          ELSE \E k \in 1..Len(height_map) :
                  /\ WorldX(k) <= call.x
                  /\ call.x < WorldX(k) + TERRAIN_RESOLUTION
                  /\ height = height_map[k]
    /\ (call.op = "check_collision" /\ (call.x < 0 \/ call.x >= SCREEN_WIDTH))
          => ret = FALSE

\* get_height_at was asked about the first x past the right edge, where the
\* last sample is not the default
C11_Witness ==
    /\ call.op = "get_height_at"
    /\ call.x = SCREEN_WIDTH
    /\ height = MIN_GROUND_HEIGHT
    /\ height_map[Len(height_map)] > MIN_GROUND_HEIGHT

\* C18: apply_destruction(cx, _, radius) leaves every sample i with
\* d = |cx - i * TERRAIN_RESOLUTION| < radius at exactly
\* max(MIN_GROUND_HEIGHT, old - floor((radius - d) * 0.5)) and every other
\* sample as it was, for every cx drawn (odd and even, at both edges): the
\* index range visits every sample within the radius.
C18_CraterExact ==
    [][call'.op = "apply_destruction" /\ steps' = steps + 1 =>
          \A k \in 1..Len(height_map) :
             LET d == Abs(call'.x - WorldX(k))
             IN  height_map'[k] =
                    IF d < call'.n
                    THEN Max(MIN_GROUND_HEIGHT,
                             height_map[k] - (call'.n - d) \div 2)
                    ELSE height_map[k]]_vars

\* a crater of radius 20 at the odd x = 1 by the left edge lowered the first
\* sample and left every sample from x = 22 on as generated
C18_Witness ==
    /\ call.op = "apply_destruction"
    /\ call.x = 1
    /\ call.n = 20
    /\ steps = 1
    /\ \E phase \in Phases :
          /\ height_map[1] < generate_terrain(phase)[1]
          /\ \A k \in 12..Len(height_map) :
                height_map[k] = generate_terrain(phase)[k]

----------------------------------------------------------------------------
(* Properties of the AIController, checked under SpecAI *)

\* This step is an update of the controller with frame time dt
IsAIUpdate(dt) == call'.op = "ai_update" /\ call'.n = dt /\ steps' = steps + 1

\* abs(self.ant.x - player_ant.x), as the update finds it
Distance == Abs(ants["enemy"].x - ants["player"].x)

\* C15: while its ant is alive, an idle controller whose decreased timer is
\* <= 0 goes to "attack" with timer 2.0 when the horizontal distance to the
\* player is < 100 and to "move" (timer in [1.0, 3.0]) otherwise; a
\* controller in "attack" is "idle" after the next update, whatever ability
\* it invoked and whatever that returned.
C15_IdleAndAttack ==
    [][\A dt \in DTs :
          IsAIUpdate(dt) /\ ants["enemy"].is_alive =>
             /\ (ai.state = "idle" /\ ai.state_timer - dt <= 0) =>
                   IF Distance < 100
                   THEN ai' = [state |-> "attack", state_timer |-> 20]
                   ELSE ai'.state = "move" /\ ai'.state_timer \in 10..30
             /\ ai.state = "attack" => ai'.state = "idle"]_vars

\* the controller, gone from "idle" to "attack" at distance 40, sprayed the
\* player in its "attack" tick and is "idle" again
C15_Witness ==
    /\ call.op = "ai_update"
    /\ call.before.ai = [state |-> "attack", state_timer |-> 20]
    /\ call.x = 40
    /\ call.name = "acid_spray"
    /\ ret
    /\ ai.state = "idle"

\* C16 as claimed: a live controller changes state in a tick only if its
\* decreased timer is <= 0 or it is in "move" at distance < 50.
C16_OnlyTimerOrThreshold ==
    [][\A dt \in DTs :
          IsAIUpdate(dt) /\ ants["enemy"].is_alive /\ ai'.state # ai.state =>
             \/ ai.state_timer - dt <= 0
             \/ ai.state = "move" /\ Distance < 50]_vars

\* C16, amended: every update of a live controller first lowers the timer by
\* dt (a tick that keeps the state leaves the timer at exactly that); "idle"
\* and "move" are left only if the lowered timer is <= 0 or, in "move", the
\* distance is < 50, and are kept otherwise; "attack" is left in every tick,
\* whatever the timer.
C16_TimerGates ==
    [][\A dt \in DTs :
          IsAIUpdate(dt) /\ ants["enemy"].is_alive =>
             LET due == \/ ai.state_timer - dt <= 0
                        \/ ai.state = "move" /\ Distance < 50
             IN  /\ ai'.state = ai.state => ai'.state_timer = ai.state_timer - dt
                 /\ ai.state \in {"idle", "move"} =>
                       (ai'.state # ai.state <=> due)
                 /\ ai.state = "attack" => ai'.state # ai.state]_vars

\* an "attack" tick entered with 2.0 s on the timer and evaluated with
\* dt = 0.5 s at distance 550 left "attack" for "idle": the lowered timer was
\* 1.5 s and no threshold was near
C16_Witness ==
    /\ call.op = "ai_update"
    /\ call.before.ai = [state |-> "attack", state_timer |-> 20]
    /\ call.n = 5
    /\ call.x = 550
    /\ call.name = ""
    /\ ai.state = "idle"

\* C19 as claimed: in every tick a live controller evaluates in "move" its
\* ant's x changes by exactly 2, and the controller goes to "idle" exactly
\* when the lowered timer is <= 0 or the distance is < 50.
C19_SeekingAlwaysWalks ==
    [][\A dt \in DTs :
          IsAIUpdate(dt) /\ ants["enemy"].is_alive /\ ai.state = "move" =>
             /\ Abs(ants'["enemy"].x - ants["enemy"].x) = 2
             /\ ai'.state = "idle" <=>
                   (ai.state_timer - dt <= 0 \/ Distance < 50)]_vars

\* C19, amended: a live controller evaluated in "move" goes to "idle" (timer
\* in [0.5, 1.5]) exactly when the lowered timer is <= 0 or the distance is
\* < 50, and in that tick its ant does not move; in every other "move" tick
\* it stays in "move" and its ant's x changes by exactly 2, toward the
\* player or away from it (to the left when the two x are equal).
C19_SeekingWalksOrLeaves ==
    [][\A dt \in DTs :
          IsAIUpdate(dt) /\ ants["enemy"].is_alive /\ ai.state = "move" =>
             IF ai.state_timer - dt <= 0 \/ Distance < 50
             THEN /\ ai'.state = "idle"
                  /\ ai'.state_timer \in 5..15
                  /\ ants' = ants
             ELSE /\ ai' = [state |-> "move", state_timer |-> ai.state_timer - dt]
                  /\ Abs(ants'["enemy"].x - ants["enemy"].x) = 2
                  /\ ants' = [ants EXCEPT !["enemy"].x = ants'["enemy"].x]]_vars

\* a "move" tick found the player nearer than 50 and left for "idle"
\* without moving the ant, which earlier "move" ticks had walked
C19_Witness ==
    /\ call.op = "ai_update"
    /\ call.before.ai.state = "move"
    /\ call.before.ai.state_timer > call.n
    /\ call.x < 50
    /\ ai.state = "idle"
    /\ ants["enemy"].x = call.before.x
    /\ ants["enemy"].x # SCREEN_WIDTH - 150

\* C20: the controller invokes an ability only in a tick evaluated in
\* "attack" with its ant alive, one ability at most (the ants end as one
\* use_ability leaves them), only at distance < 120, bite only at distance
\* < 40 and acid_spray otherwise; an invocation that returns False changes
\* neither ant; without an invocation the player's ant is untouched; and
\* every "attack" tick ends in "idle" with a timer in [1.0, 2.0].
C20_AttackTick ==
    [][\A dt \in DTs :
          IsAIUpdate(dt) =>
             /\ call'.name # "" =>
                   /\ ants["enemy"].is_alive
                   /\ ai.state = "attack"
                   /\ Distance < 120
                   /\ call'.name \in AbilityNames
                   /\ call'.name = "bite" => Distance < 40
                   /\ LET r == use_ability(ants["enemy"], call'.name, ants["player"])
                      IN  /\ ret' = r.ok
                          /\ ants'["enemy"] = r.user
                          /\ ants'["player"] = r.target
                   /\ ~ret' => ants' = ants
             /\ call'.name = "" =>
                   /\ ~ret'
                   /\ ants'["player"] = ants["player"]
                   /\ ants'["enemy"] = [ants["enemy"] EXCEPT !.x = ants'["enemy"].x]
             /\ (ants["enemy"].is_alive /\ ai.state = "attack") =>
                   ai'.state = "idle" /\ ai'.state_timer \in 10..20]_vars

\* an "attack" tick at a distance in 50..119 invoked acid_spray, which
\* returned False; the controller is "idle"
C20_Witness ==
    /\ call.op = "ai_update"
    /\ call.before.ai.state = "attack"
    /\ call.name = "acid_spray"
    /\ call.x >= 50
    /\ ~ret
    /\ ai.state = "idle"
    /\ ai.state_timer \in 10..20

\* C21: an update of an Ant that is not alive and an update of the
\* controller of an Ant that is not alive change nothing: the Ant's
\* position, velocity, cooldowns, effects and their remaining times, the
\* other Ant, and the controller's state and timer are as they were.
C21_DeadTick ==
    [][/\ (call'.op = "update" /\ steps' = steps + 1
              /\ ~ants[call'.who].is_alive)
             => ants' = ants /\ ai' = ai
       /\ (call'.op = "ai_update" /\ steps' = steps + 1
              /\ ~ants["enemy"].is_alive)
             => ants' = ants /\ ai' = ai /\ call'.name = ""]_vars

\* the controller, in "attack" with 2.0 s on its timer, was updated after
\* its Ant, holding an acid effect, had died: controller and Ant are as
\* they were
C21_Witness ==
    /\ call.op = "ai_update"
    /\ ~call.before.alive
    /\ call.before.ai = [state |-> "attack", state_timer |-> 20]
    /\ ai = call.before.ai
    /\ ~ants["enemy"].is_alive
    /\ Len(ants["enemy"].active_effects) = 1
    /\ ants["enemy"].active_effects[1].remaining_time = CalledDuration

\* C22: the controller has no state it stays in: in every behaviour in
\* which its Ant stays alive and the updates go on, the controller is
\* "idle" again and again, and so never in "move" or "attack" for good.
C22_IdleAgain ==
    ([]ants["enemy"].is_alive) => []<>(ai.state = "idle")

\* the controller is "idle" with time left on its timer, so back from
\* "move" or "attack", after an "attack" in which it hurt the player, and
\* its Ant is alive
C22_Witness ==
    /\ call.op = "ai_update"
    /\ ai.state = "idle"
    /\ ai.state_timer > 0
    /\ ants["player"].health < MAX_HEALTH
    /\ ants["enemy"].is_alive
    /\ ants["enemy"].x # SCREEN_WIDTH - 150

----------------------------------------------------------------------------
(* Properties of the Game, checked under SpecGame *)

\* This step is an iteration of the loop in the PLAYING state
IsFrame == call'.op = "frame" /\ steps' = steps + 1

\* A projectile is in flight
InFlight == projectile.present /\ projectile.active

\* C12 as claimed: in one update of an active projectile at most one impact
\* fires, the ground test first: a projectile that collides with the terrain
\* leaves its crater and does not also hit the enemy in that update.
C12_OneImpact == ~({"ground", "enemy"} \subseteq impact)

\* The projectile in flight is past the right edge of the arena, flies right
\* at 2 pixels per update or more, and is HIT_DISTANCE or more to the right
\* of the enemy: check_collision is False at its x and at every x it will
\* have, and the enemy, who walks 2 pixels per update at most, stays
\* HIT_DISTANCE or more behind it
PastReach ==
    /\ InFlight
    /\ IntOf(projectile.x) >= SCREEN_WIDTH
    /\ projectile.velocity[1] >= 2 * PX
    /\ projectile.x - ants["enemy"].x * PX >= HIT_DISTANCE * PX

\* A frame that launches no projectile finds a projectile past reach still
\* in flight and past reach
PastReachForGood ==
    [][PastReach /\ IsFrame /\ ~(call'.name = "release" /\ charging_power > 0)
          => PastReach']_vars

\* C13 as claimed: every launched projectile ends inactive by striking the
\* ground or the enemy; so none is ever in flight where neither can happen
\* any more.
C13_NeverPastReach == ~PastReach

\* C14 as claimed: a release of SPACE while a projectile is in flight
\* launches nothing: the projectile in flight goes on from its position,
\* with its velocity and its trail.
C14_ReleaseBlocked ==
    [][IsFrame /\ call'.name = "release" /\ InFlight =>
          LET flown == ProjectileUpdate(projectile)
          IN  /\ projectile'.x = flown.x
              /\ projectile'.y = flown.y
              /\ projectile'.velocity = flown.velocity
              /\ projectile'.trail = flown.trail]_vars

\* C17: the Game is in GAME_OVER exactly when an Ant is dead, in every state
\* an iteration of the loop leaves; and there the winner shown is the player
\* only if the enemy is dead and the AI only if the player is dead.
C17_MatchOver ==
    /\ state = "game_over" <=> \E a \in AntNames : ~ants[a].is_alive
    /\ state = "game_over" =>
          /\ winner_text(ants["enemy"]) = "Player Wins!" => ~ants["enemy"].is_alive
          /\ winner_text(ants["enemy"]) = "AI Wins!" => ~ants["player"].is_alive

\* a frame ended the match with the player dead and the enemy alive
C17_Witness ==
    /\ call.op = "frame"
    /\ state = "game_over"
    /\ ~ants["player"].is_alive
    /\ ants["enemy"].is_alive
    /\ winner_text(ants["enemy"]) = "AI Wins!"

\* C23: in every state in which an iteration of the loop finds the Game in
\* PLAYING both Ants are alive, and a frame that leaves an Ant dead, however
\* it died, leaves the Game in GAME_OVER: no later frame runs input,
\* movement, controller or abilities for a dead Ant.
C23_PlayingBothAlive ==
    /\ [](state = "playing" => \A a \in AntNames : ants[a].is_alive)
    /\ [][IsFrame /\ (\E a \in AntNames : ~ants'[a].is_alive)
             => state' = "game_over"]_vars

\* a frame in which no projectile struck left the enemy dead and the player
\* alive, and the Game in GAME_OVER
C23_Witness ==
    /\ call.op = "frame"
    /\ impact = {}
    /\ ~ants["enemy"].is_alive
    /\ ants["player"].is_alive
    /\ state = "game_over"

\* C24 as claimed: in GAME_OVER exactly one Ant is dead; the two are never
\* both dead at the end of one update.
C24_ExactlyOneDead ==
    state = "game_over" =>
       Cardinality({a \in AntNames : ~ants[a].is_alive}) = 1

=============================================================================
